---- MODULE Spec2Model ----
(***************************************************************************)
(* A model of the incremental crawl-and-normalise pipeline of              *)
(* morocco-property-tool: link discovery (get_links), the listing          *)
(* orchestrator (process_single_listing, get_details), the image pipeline  *)
(* (process_listing_images, repair_listing_images), the entry points, the   *)
(* cleaners of the page parser and the two repair programs.                *)
(*                                                                         *)
(* The three tables of the document store are variables.  Every network    *)
(* fetch, upload and store write has a nondeterministic outcome.  Python   *)
(* semantics are kept: a call whose keywords do not bind to the callee's   *)
(* signature raises TypeError before the callee's body runs.               *)
(***************************************************************************)
EXTENDS Integers, Sequences, FiniteSets, TLC

VARIABLES
    \* ---- get_links (src/scraper.py 339-415)
    gl_pc,              \* "idle" | "loop" | "done"
    page,               \* the loop variable `page`
    max_pages,          \* the argument max_pages
    existing_ids,       \* the argument existing_ids
    new_listings,       \* the list new_listings (the return value once gl_pc = "done")
    fetches,            \* history: number of index pages fetched by this call
    lastResult,         \* history: outcome of the last index fetch
    cardIds,            \* history: identities of all cards on the pages fetched
    page1Ids,           \* history: identities of the cards of index page 1
    \* ---- the document store
    raw_listings,       \* table raw_listings: external_id -> row
    normalised_listings,\* table normalised_listings: external_id -> row
    listing_images,     \* table listing_images: <<external_id, image_index>> -> row
    \* ---- get_details / process_single_listing (src/scraper.py 729-742, 144-199)
    gd_pc,              \* "idle" | "loop" | "done" | "raised"
    batch,              \* the argument listings_meta
    gd_i,               \* position of the loop over listings_meta
    psl_pc,             \* position inside process_single_listing
    resp,               \* the response of fetch(url) in process_single_listing
    rows,               \* the list rows of get_details
    outcomes,           \* history: how each listing of the batch ended
    \* ---- process_listing_images called on its own (src/scraper.py 561-611)
    img_run,            \* history: what the latest call did
    img_prev,           \* history: per listing, what the call before it returned
    \* ---- entry points
    entry,              \* which file is run as the program
    main_pc,            \* position inside its main()
    \* ---- the cleaners and extractors of scraper.py called on their own
    cl_fn,              \* the function called
    cl_pc,              \* "ready" | "done"
    cl_in,              \* its argument
    cl_out,             \* its return value (once cl_pc = "done")
    \* ---- the repair programs (src/repair_missing_normalised.py,
    \*      src/repair_normalised_from_raw.py)
    rep_prog,           \* which repair program runs
    rep_pc,             \* position inside it
    rep_rows,           \* missing_ids, or raw_rows
    rep_i,              \* position of the loop over rep_rows
    success_count,      \* rebuild_normalised_from_raw: success_count
    fail_count,         \* rebuild_normalised_from_raw: fail_count
    parse_none_count,   \* rebuild_normalised_from_raw: parse_none_count
    repaired            \* repair_missing_normalised main(): repaired

linkVars == <<gl_pc, page, max_pages, existing_ids, new_listings,
              fetches, lastResult, cardIds, page1Ids>>
storeVars == <<raw_listings, normalised_listings, listing_images>>
gdVars == <<gd_pc, batch, gd_i, psl_pc, resp, rows, outcomes>>
imgVars == <<img_run, img_prev>>
mainVars == <<entry, main_pc>>
cleanVars == <<cl_fn, cl_pc, cl_in, cl_out>>
repairVars == <<rep_prog, rep_pc, rep_rows, rep_i,
                success_count, fail_count, parse_none_count, repaired>>

vars == <<linkVars, storeVars, gdVars, imgVars, mainVars, cleanVars, repairVars>>

-----------------------------------------------------------------------------
(* Bounds of the model.                                                    *)

MaxPages == 3       \* largest max_pages argument explored
MaxCards == 1       \* largest number of cards on one index page
MaxBatch == 2       \* longest listings_meta given to get_details on its own
MaxImages == 2      \* largest number of image URLs on a listing page
MaxText == 3        \* longest text (characters, words, path segments) given to a cleaner
MaxScripts == 2     \* largest number of script elements given to extract_coordinates

Absent == "absent"  \* Python's None

-----------------------------------------------------------------------------
(* URLs.  A URL is its path segments (each written after a "/"), whether   *)
(* it carries the scheme and host, and its query string.                   *)

Url(abs, segs, query) == [abs |-> abs, segs |-> segs, query |-> query]

EmptyUrl == Url(FALSE, <<>>, "")

\* The longest prefix of a path segment that matches \d+ ("" when none).
DigitPrefix(seg) ==
    CASE seg = "8037244"      -> "8037244"
      [] seg = "8037244-flat" -> "8037244"
      [] seg = "4634098"      -> "4634098"
      [] seg = "5550001"      -> "5550001"
      [] OTHER                -> ""

\* The "/"-separated pieces that follow the first "/" of a query string.
QuerySegs(query) ==
    CASE query = "?ref=/a/5550001" -> <<"a", "5550001">>
      [] OTHER                     -> <<>>

\* The text the pattern is searched in: the path, then the query string.  The
\* piece before the first "/" of a query string is the end of the last path
\* segment.
UrlSegs(url) == url.segs \o QuerySegs(url.query)

\* re.search(r"/(a|pa)/(\d+)", url): the positions that match.  The last path
\* segment is not a bare "a" or "pa" when a query string follows it.
MatchPositions(url) ==
    {i \in 1..(Len(UrlSegs(url)) - 1) :
        /\ UrlSegs(url)[i] \in {"a", "pa"}
        /\ DigitPrefix(UrlSegs(url)[i + 1]) # ""
        /\ ~(i = Len(url.segs) /\ url.query # "")}

\* A variant that takes the whole segment after the kind, not its digits.
get_mubawab_external_id_whole_segment(url) ==
    IF MatchPositions(url) = {}
    THEN Absent
    ELSE LET i == CHOOSE k \in MatchPositions(url) :
                      \A j \in MatchPositions(url) : k <= j
         IN  UrlSegs(url)[i] \o UrlSegs(url)[i + 1]

\* get_mubawab_external_id (220-232): the leftmost match, as kind + digits.
get_mubawab_external_id(url) ==
    IF MatchPositions(url) = {}
    THEN Absent
    ELSE LET i == CHOOSE k \in MatchPositions(url) :
                      \A j \in MatchPositions(url) : k <= j
         IN  UrlSegs(url)[i] \o DigitPrefix(UrlSegs(url)[i + 1])

\* url.startswith("/")
StartsWithSlash(url) == ~url.abs /\ url.segs # <<>>

\* "https://www.mubawab.ma" + url
Absolutize(url) == IF StartsWithSlash(url) THEN [url EXCEPT !.abs = TRUE] ELSE url

-----------------------------------------------------------------------------
(* Index-page cards: a div.listingBox[linkref] with its class list.        *)

\* str.lower() on the words of the model.
Lower(c) ==
    CASE c = "adBoostBox" -> "adboostbox"
      [] c = "sPremium"   -> "spremium"
      [] c = "IN"         -> "in"
      [] c = "Years"      -> "years"
      [] OTHER            -> c

classify_listing_box(box) ==
    LET classes_set == {Lower(c) : c \in box.classes}
        is_adboost  == "adboostbox" \in classes_set
        tier == IF "spremium" \in classes_set THEN "super_premium"
                ELSE IF "premium" \in classes_set THEN "premium"
                ELSE "standard"
    IN  <<tier, is_adboost>>

Card(linkref, classes) == [linkref |-> linkref, classes |-> classes]

\* The cards an index page may show.
CardKinds ==
    { Card(Url(FALSE, <<"en", "a", "8037244", "flat">>, ""), {"listingBox"}),
      Card(Url(FALSE, <<"en", "a", "8037244-flat">>, "?t=1"), {"listingBox", "premium"}),
      Card(Url(TRUE,  <<"en", "pa", "4634098">>, ""), {"listingBox", "sPremium"}),
      Card(Url(FALSE, <<"en", "a", "5550001">>, ""), {"listingBox", "adBoostBox"}),
      Card(Url(FALSE, <<"en", "agency", "x">>, ""), {"listingBox"}),
      Card(EmptyUrl, {"listingBox"}) }

IDs == {"a8037244", "pa4634098", "a5550001"}

SeqsUpTo(S, n) == UNION {[1..k -> S] : k \in 0..n}

\* What fetch(page_url) can give: None (ok = FALSE), or a response whose page
\* shows the cards `boxes`.
FetchFailed == [ok |-> FALSE, boxes |-> <<>>]

PageResults ==
    {FetchFailed} \cup {[ok |-> TRUE, boxes |-> b] : b \in SeqsUpTo(CardKinds, MaxCards)}

\* The identity of a card, as get_links resolves it.
CardId(box) == get_mubawab_external_id(Absolutize(box.linkref))

\* The body of `for box in boxes` (381-410): the descriptors one page adds.
RECURSIVE card_descriptors(_, _)
card_descriptors_unfiltered(boxes, ids) ==
    IF boxes = <<>> THEN <<>>
    ELSE LET box  == Head(boxes)
             url  == Absolutize(box.linkref)
             eid  == get_mubawab_external_id(url)
             cls  == classify_listing_box(box)
             rest == card_descriptors(Tail(boxes), ids)
         IN  IF box.linkref = EmptyUrl THEN rest
             ELSE IF eid = Absent THEN rest
             ELSE IF cls[2] THEN rest
             ELSE <<[url |-> url, external_id |-> eid,
                     listing_tier |-> cls[1], is_adboost |-> cls[2]]>> \o rest

card_descriptors(boxes, ids) ==
    IF boxes = <<>> THEN <<>>
    ELSE LET box  == Head(boxes)
             url  == Absolutize(box.linkref)
             eid  == get_mubawab_external_id(url)
             cls  == classify_listing_box(box)
             rest == card_descriptors(Tail(boxes), ids)
         IN  IF box.linkref = EmptyUrl THEN rest
             ELSE IF eid = Absent THEN rest
             ELSE IF eid \in ids THEN rest
             ELSE IF cls[2] THEN rest
             ELSE <<[url |-> url, external_id |-> eid,
                     listing_tier |-> cls[1], is_adboost |-> cls[2]]>> \o rest

PageIds(boxes) == {CardId(boxes[i]) : i \in 1..Len(boxes)} \ {Absent}

-----------------------------------------------------------------------------
(* get_links.                                                              *)

\* The call: new_listings = [] and the loop starts at page 1.
get_links_enter(ids, mp) ==
    /\ gl_pc' = (IF mp >= 1 THEN "loop" ELSE "done")
    /\ page' = 1
    /\ max_pages' = mp
    /\ existing_ids' = ids
    /\ new_listings' = <<>>
    /\ fetches' = 0
    /\ lastResult' = "none"
    /\ cardIds' = {}
    /\ page1Ids' = {}

\* A variant of the loop body that goes on to the next page (continue) where
\* the code breaks.
get_links_page_continue(res) ==
    /\ gl_pc = "loop"
    /\ fetches' = fetches + 1
    /\ lastResult' = (IF ~res.ok THEN "fail"
                      ELSE IF res.boxes = <<>> THEN "empty" ELSE "cards")
    /\ new_listings' = new_listings \o card_descriptors(res.boxes, existing_ids)
    /\ cardIds' = cardIds \cup PageIds(res.boxes)
    /\ page1Ids' = (IF page = 1 THEN PageIds(res.boxes) ELSE page1Ids)
    /\ page' = page + 1
    /\ gl_pc' = (IF page + 1 > max_pages THEN "done" ELSE "loop")
    /\ UNCHANGED <<max_pages, existing_ids>>

\* One iteration of `for page in range(1, max_pages + 1)` (362-412), the
\* return (414-415) included when the loop ends with it.
get_links_page(res) ==
    /\ gl_pc = "loop"
    /\ fetches' = fetches + 1
    /\ IF ~res.ok
       THEN \* resp is None: break
            /\ lastResult' = "fail"
            /\ gl_pc' = "done"
            /\ UNCHANGED <<page, new_listings, cardIds, page1Ids>>
       ELSE IF res.boxes = <<>>
       THEN \* not boxes: break
            /\ lastResult' = "empty"
            /\ gl_pc' = "done"
            /\ UNCHANGED <<page, new_listings, cardIds, page1Ids>>
       ELSE /\ lastResult' = "cards"
            /\ new_listings' = new_listings \o card_descriptors(res.boxes, existing_ids)
            /\ cardIds' = cardIds \cup PageIds(res.boxes)
            /\ page1Ids' = (IF page = 1 THEN PageIds(res.boxes) ELSE page1Ids)
            /\ page' = page + 1
            /\ gl_pc' = (IF page + 1 > max_pages THEN "done" ELSE "loop")
    /\ UNCHANGED <<max_pages, existing_ids>>

-----------------------------------------------------------------------------
(* Python call binding.  A call that passes a keyword the callee does not  *)
(* declare, or leaves out a parameter that has no default, raises          *)
(* TypeError at the call, before the callee's body runs.                   *)

Binds(passed, params, required) == passed \subseteq params /\ required \subseteq passed

\* def save_raw_listing(...) (234-244): no parameter has a default.
save_raw_listing_params ==
    {"source", "external_id", "link", "response_text", "image_urls",
     "listing_tier", "is_adboost", "details"}

\* The call of save_raw_listing in process_single_listing (173-184).
psl_save_raw_call ==
    {"source", "listing_type", "external_id", "link", "response_text",
     "image_urls", "listing_tier", "agent_type", "agent_name", "agent_url"}

\* def upsert_normalised_listing(...) (275-284).
upsert_normalised_listing_params ==
    {"details", "external_id", "source", "listing_type", "listing_tier",
     "is_adboost", "main_image_path"}

upsert_normalised_listing_required ==
    {"details", "external_id", "listing_tier", "is_adboost"}

\* The call of upsert_normalised_listing in process_single_listing (190-197).
psl_upsert_call ==
    {"details", "external_id", "source", "listing_type", "main_image_path",
     "listing_tier"}

\* def get_links(base_url, max_pages, existing_ids) (339-343).
get_links_params == {"base_url", "max_pages", "existing_ids"}

\* get_links(base_url, max_pages=max_pages) in main.py (15).
main_py_get_links_call == {"base_url", "max_pages"}

-----------------------------------------------------------------------------
(* The cleaners (443-539).  Where a value is a number or a list of words,  *)
(* None is Python's None and Some(v) the value v; a string value is the    *)
(* string, or Absent.                                                      *)

None == <<>>
Some(v) == <<v>>

\* A numeric text is its characters.  \d:
IsDigit(c) == c \in {"0", "1", "2", "3", "4", "5", "6", "7", "8", "9"}

DigitValue(c) ==
    CASE c = "0" -> 0 [] c = "1" -> 1 [] c = "2" -> 2 [] c = "3" -> 3
      [] c = "4" -> 4 [] c = "5" -> 5 [] c = "6" -> 6 [] c = "7" -> 7
      [] c = "8" -> 8 [] c = "9" -> 9

\* int(cleaned) on a string of digits.
RECURSIVE int(_)
int(cleaned) ==
    IF cleaned = <<>> THEN 0
    ELSE 10 * int(SubSeq(cleaned, 1, Len(cleaned) - 1))
           + DigitValue(cleaned[Len(cleaned)])

\* A variant that gives 0 for a text without a digit.
clean_integer_zero(number_str) ==
    Some(int(SelectSeq(number_str, IsDigit)))

\* clean_integer (443-462).  <<>> is the empty string, and None: both are
\* falsy at 453.
clean_integer(number_str) ==
    IF number_str = <<>> THEN None
    ELSE LET cleaned == SelectSeq(number_str, IsDigit)
         IN  IF cleaned = <<>> THEN None ELSE Some(int(cleaned))

\* str.strip() on the strings of the model.
Strip(text) ==
    CASE text = " "               -> ""
      [] text = " Flat for rent " -> "Flat for rent"
      [] OTHER                    -> text

\* clean_text (464-465).
clean_text(text) == IF text \in {"", Absent} THEN Absent ELSE Strip(text)

\* An age text is its words and numbers in order; what separates them
\* (spaces, hyphens) holds no digit and no letter.  A number is a maximal
\* run of digits, so re.findall(r'\d+', age_str) is the numbers in order.
IsNumber(w) == w \in {"0", "5", "05"}

NumberValue(w) == CASE w = "0" -> 0 [] w = "5" -> 5 [] w = "05" -> 5

\* A variant that needs no "years" in the text.
clean_age_no_years(age_str) ==
    LET numbers == SelectSeq(age_str, IsNumber)
    IN  IF Len(numbers) = 2
        THEN ToString(NumberValue(numbers[1])) \o "-"
               \o ToString(NumberValue(numbers[2]))
        ELSE Absent

\* clean_age (470-484).
clean_age(age_str) ==
    IF age_str = <<>> THEN Absent
    ELSE LET age_str_lower == [i \in DOMAIN age_str |-> Lower(age_str[i])]
             numbers == SelectSeq(age_str, IsNumber)
         IN  IF ~\E i \in DOMAIN age_str_lower : age_str_lower[i] = "years"
             THEN Absent
             ELSE IF Len(numbers) = 2
             THEN ToString(NumberValue(numbers[1])) \o "-"
                    \o ToString(NumberValue(numbers[2]))
             ELSE Absent

\* clean_condition (495-511).  At 504 `cond_str == 'Old'` is a comparison
\* whose value is dropped; 505 returns cond_str as it came.
clean_condition(cond_str) ==
    IF cond_str \in {"", Absent} THEN Absent
    ELSE IF cond_str = "Good condition" THEN "Good"
    ELSE IF cond_str = "Due for reform" THEN cond_str
    ELSE IF cond_str = "New" THEN cond_str
    ELSE Absent

\* An area text is its words in order, outer whitespace stripped (519).
\* r'^(.*)\s+in\s+(.*)$' with re.IGNORECASE matches at a word "in" that has
\* a word before it and a word after it.
Separators(raw_area_text) ==
    {k \in 2..(Len(raw_area_text) - 1) : Lower(raw_area_text[k]) = "in"}

\* A variant whose separator is the lower-case "in" only.
parse_area_and_city_case_sensitive(raw_area_text) ==
    LET seps == {k \in Separators(raw_area_text) : raw_area_text[k] = "in"}
    IN  IF raw_area_text = <<>> THEN <<None, None>>
        ELSE IF seps # {}
        THEN LET k == CHOOSE m \in seps : \A j \in seps : j <= m
             IN  <<Some(SubSeq(raw_area_text, 1, k - 1)),
                   Some(SubSeq(raw_area_text, k + 1, Len(raw_area_text)))>>
        ELSE <<None, Some(raw_area_text)>>

\* parse_area_and_city (513-539): <<area, city>>.  The first group is
\* greedy, so the text splits at its last separator.
parse_area_and_city(raw_area_text) ==
    IF raw_area_text = <<>> THEN <<None, None>>
    ELSE IF Separators(raw_area_text) # {}
    THEN LET k == CHOOSE m \in Separators(raw_area_text) :
                      \A j \in Separators(raw_area_text) : j <= m
         IN  <<Some(SubSeq(raw_area_text, 1, k - 1)),
               Some(SubSeq(raw_area_text, k + 1, Len(raw_area_text)))>>
    ELSE <<None, Some(raw_area_text)>>

-----------------------------------------------------------------------------
(* extract_coordinates (541-559).                                          *)

\* A script element: whether its text holds "waze.com/ul", and the value of
\* the ll parameter split at its commas (<<>> when the text has no
\* "waze.com/ul?ll=" followed by a character other than "&").
Script(link, ll) == [link |-> link, ll |-> ll]

\* float(s): whether it parses, and the number, in hundredths.
IsFloat(s) == s \in {"33.57", "-7.63"}

float(s) == CASE s = "33.57" -> 3357 [] s = "-7.63" -> -763

\* `for s in soup.find_all("script")` from script i on; lat and lon keep what
\* a failed try block assigned before it raised, and the loop goes on.
RECURSIVE ec_loop(_, _, _, _)
ec_loop(scripts, i, lat, lon) ==
    IF i > Len(scripts) THEN <<lat, lon>>
    ELSE LET ll == scripts[i].ll
         IN  IF ~scripts[i].link \/ ll = <<>>
             THEN ec_loop(scripts, i + 1, lat, lon)
             ELSE IF Len(ll) # 2
             THEN \* lat_str, lon_str = ll.split(",") raises ValueError
                  ec_loop(scripts, i + 1, lat, lon)
             ELSE IF ~IsFloat(ll[1])
             THEN ec_loop(scripts, i + 1, lat, lon)
             ELSE IF ~IsFloat(ll[2])
             THEN \* lat is assigned (552), float(lon_str) raises (553)
                  ec_loop(scripts, i + 1, Some(float(ll[1])), lon)
             ELSE <<Some(float(ll[1])), Some(float(ll[2]))>>

extract_coordinates(scripts) == ec_loop(scripts, 1, None, None)

-----------------------------------------------------------------------------
(* Listing pages and the page parser.                                      *)

PriceText == <<"1", "2", ",", "5", "0", "0", " ", "D", "H">>
AreaText == <<"Maarif", "in", "Casablanca">>
TitleText == " Flat for rent "

\* A listing page: which anchor tags it has, how many distinct image URLs
\* its masonryPhoto container holds, and the texts of the anchor tags.
Html(price, area, title, n) ==
    [price_tag |-> price, area_tag |-> area, title_tag |-> title, images |-> n,
     price_text |-> PriceText, area_text |-> AreaText, title_text |-> TitleText]

\* A page that has the three anchor tags, with these texts in them.
HtmlText(price_text, area_text, title_text) ==
    [Html(TRUE, TRUE, TRUE, 0) EXCEPT !.price_text = price_text,
                                      !.area_text = area_text,
                                      !.title_text = title_text]

NoHtml == Html(FALSE, FALSE, FALSE, 0)

HtmlPages ==
    { Html(TRUE, TRUE, TRUE, MaxImages),
      Html(FALSE, TRUE, TRUE, 1),
      Html(TRUE, FALSE, TRUE, 0),
      Html(TRUE, TRUE, FALSE, 0) }

\* get_image_links (417-439): the number of image URLs, duplicates removed.
get_image_links(html) == html.images

\* The value None of parse_property_page.
NoDetails(link) ==
    [parsed |-> FALSE, url |-> link, title |-> Absent, price |-> None,
     area |-> None, city |-> None]

\* The PropertyDetails of a page: the anchor fields, cleaned (627-633).  The
\* other fields are soft and decide nothing.
Details(link, html) ==
    [parsed |-> TRUE, url |-> link,
     title |-> clean_text(Strip(html.title_text)),
     price |-> clean_integer(html.price_text),
     area  |-> parse_area_and_city(html.area_text)[1],
     city  |-> parse_area_and_city(html.area_text)[2]]

\* A variant whose gate does not look at the title tag.
parse_property_page_no_title_gate(link, html) ==
    IF html.price_tag /\ html.area_tag
    THEN Details(link, html)
    ELSE NoDetails(link)

\* parse_property_page (615-727): absent unless the three anchor tags are
\* there (619-625).
parse_property_page(link, html) ==
    IF html.price_tag /\ html.area_tag /\ html.title_tag
    THEN Details(link, html)
    ELSE NoDetails(link)

-----------------------------------------------------------------------------
(* The tables.                                                             *)

NoRaw == [present |-> FALSE, html |-> NoHtml]
RawRow(html) == [present |-> TRUE, html |-> html]

NoNorm ==
    [present |-> FALSE, main_image_path |-> Absent,
     title |-> Absent, price |-> None, area |-> None]

\* The row an upsert of `details` writes.
NormRowOf(details, mip) ==
    [present |-> TRUE, main_image_path |-> mip,
     title |-> details.title, price |-> details.price, area |-> details.area]

\* A row of a page whose anchor texts all clean to a value.
NormRow(mip) == NormRowOf(Details(EmptyUrl, Html(TRUE, TRUE, TRUE, 0)), mip)

NoImage == [present |-> FALSE, storage_path |-> Absent]
ImageRow(path) == [present |-> TRUE, storage_path |-> path]

\* The listings that reach the stores: those whose cards get_links keeps.
Listings == {"a8037244", "pa4634098"}

ImageKeys == Listings \X (0..(MaxImages - 1))

\* "<source>/<identity>/<index>.<ext>"
StoragePath(external_id, idx) ==
    "mubawab/" \o external_id \o "/" \o ToString(idx) \o ".avif"

\* upload_avif_to_r2(external_id, idx, url): the storage path, or absent when
\* the download or the upload fails.
upload_avif_to_r2(external_id, idx, ok) ==
    IF ok THEN StoragePath(external_id, idx) ELSE Absent

-----------------------------------------------------------------------------
(* process_listing_images (561-611).                                       *)

\* What can happen at one index: the store answers and, if the image is
\* uploaded, the upsert succeeds ("ok"); the upload gives no path
\* ("upload_none"); the upsert raises ("upsert_raises"; an exception out of
\* the upload leaves the same state: no row written, the call ended); the
\* select raises ("select_raises").
ImageOutcomes == {"ok", "upload_none", "upsert_raises", "select_raises"}

PliStart(imgs) ==
    [imgs |-> imgs, main |-> Absent, uploads |-> {}, writes |-> {}, raised |-> FALSE]

RECURSIVE pli_loop(_, _, _, _, _)
\* A variant that uploads every index, indexed or not.
pli_loop_reupload(st, external_id, n, idx, out) ==
    IF idx >= n \/ st.raised THEN st
    ELSE LET path == upload_avif_to_r2(external_id, idx, out[idx] # "upload_none")
             up   == [st EXCEPT !.uploads = @ \cup {idx}]
         IN  IF out[idx] = "select_raises" THEN [st EXCEPT !.raised = TRUE]
             ELSE IF path = Absent
             THEN pli_loop(up, external_id, n, idx + 1, out)
             ELSE IF out[idx] = "upsert_raises" THEN [up EXCEPT !.raised = TRUE]
             ELSE pli_loop(
                    [up EXCEPT !.imgs[<<external_id, idx>>] = ImageRow(path),
                               !.writes = @ \cup {idx},
                               !.main = IF @ = Absent /\ idx = 0 THEN path ELSE @],
                    external_id, n, idx + 1, out)

\* `for idx, url in enumerate(image_urls)` (571-609), from index idx on.
pli_loop(st, external_id, n, idx, out) ==
    IF idx >= n \/ st.raised THEN st
    ELSE LET row  == st.imgs[<<external_id, idx>>]
             path == upload_avif_to_r2(external_id, idx, out[idx] # "upload_none")
             up   == [st EXCEPT !.uploads = @ \cup {idx}]
         IN  IF out[idx] = "select_raises" THEN [st EXCEPT !.raised = TRUE]
             ELSE IF row.present
             THEN \* existing.data: skip, and take the main image path from it
                  pli_loop(
                    [st EXCEPT !.main = IF @ = Absent /\ idx = 0
                                        THEN row.storage_path ELSE @],
                    external_id, n, idx + 1, out)
             ELSE IF path = Absent
             THEN pli_loop(up, external_id, n, idx + 1, out)
             ELSE IF out[idx] = "upsert_raises" THEN [up EXCEPT !.raised = TRUE]
             ELSE pli_loop(
                    [up EXCEPT !.imgs[<<external_id, idx>>] = ImageRow(path),
                               !.writes = @ \cup {idx},
                               !.main = IF @ = Absent /\ idx = 0 THEN path ELSE @],
                    external_id, n, idx + 1, out)

\* The whole call: the tables after it, the value it returns (main), and
\* whether it raised instead.
process_listing_images(imgs, external_id, n, out) ==
    pli_loop(PliStart(imgs), external_id, n, 0, out)

OutcomeVectors(n) == [0..(n - 1) -> ImageOutcomes]

\* The indexes below n that have no row with a storage_path.
MissingIndexes(imgs, external_id, n) ==
    {idx \in 0..(n - 1) : imgs[<<external_id, idx>>].storage_path = Absent}

NoRun ==
    [ran |-> FALSE, external_id |-> "", n |-> 0, start_missing |-> {},
     uploads |-> {}, writes |-> {}, ret |-> Absent, raised |-> FALSE,
     prev |-> [returned |-> FALSE, n |-> 0, ret |-> Absent]]

\* A caller runs process_listing_images(external_id, image_urls).
pli_call(external_id, n, out) ==
    LET st == process_listing_images(listing_images, external_id, n, out)
    IN  /\ listing_images' = st.imgs
        /\ img_run' =
             [ran |-> TRUE, external_id |-> external_id, n |-> n,
              start_missing |-> MissingIndexes(listing_images, external_id, n),
              uploads |-> st.uploads, writes |-> st.writes,
              ret |-> IF st.raised THEN Absent ELSE st.main,
              raised |-> st.raised,
              prev |-> img_prev[external_id]]
        /\ img_prev' =
             [img_prev EXCEPT ![external_id] =
                 [returned |-> ~st.raised, n |-> n,
                  ret |-> IF st.raised THEN Absent ELSE st.main]]
        /\ UNCHANGED <<raw_listings, normalised_listings>>

-----------------------------------------------------------------------------
(* repair_listing_images (src/repair_missing_normalised.py 127-164).       *)

\* The loop 134-158 from index idx on: a placeholder row (storage_path NULL)
\* for every index that has no row.  `failAt` is the index whose insert
\* raises (n when none does).
RECURSIVE rli_loop(_, _, _, _, _)
rli_loop(st, external_id, n, idx, failAt) ==
    IF idx >= n \/ st.raised THEN st
    ELSE LET row == st.imgs[<<external_id, idx>>]
         IN  IF row.present
             THEN rli_loop(
                    [st EXCEPT !.main = IF idx = 0 THEN row.storage_path ELSE @],
                    external_id, n, idx + 1, failAt)
             ELSE IF idx = failAt THEN [st EXCEPT !.raised = TRUE]
             ELSE rli_loop(
                    [st EXCEPT !.imgs[<<external_id, idx>>] = ImageRow(Absent)],
                    external_id, n, idx + 1, failAt)

repair_listing_images(external_id, n, failAt) ==
    LET st == rli_loop(PliStart(listing_images), external_id, n, 0, failAt)
    IN  /\ listing_images' = st.imgs
        /\ normalised_listings' =
             IF ~st.raised /\ st.main # Absent
                /\ normalised_listings[external_id].present
             THEN [normalised_listings EXCEPT
                      ![external_id].main_image_path = st.main]
             ELSE normalised_listings
        /\ UNCHANGED raw_listings

-----------------------------------------------------------------------------
(* process_single_listing (144-199) inside the loop of get_details         *)
(* (729-742).                                                              *)

NoResp == [ok |-> FALSE, html |-> NoHtml]

\* The listing descriptors get_links can produce.
BatchDescriptors ==
    {card_descriptors(<<k>>, {})[1] :
        k \in {c \in CardKinds : card_descriptors(<<c>>, {}) # <<>>}}

\* get_details(listings_meta): rows = [] and the loop starts.
get_details_enter(listings_meta) ==
    /\ batch' = listings_meta
    /\ gd_pc' = (IF listings_meta = <<>> THEN "done" ELSE "loop")
    /\ gd_i' = 1
    /\ psl_pc' = "fetch"
    /\ resp' = NoResp
    /\ rows' = <<>>
    /\ outcomes' = <<>>

\* process_single_listing ends for batch[gd_i] (it returned, or it raised and
\* get_details caught and logged the exception, 740-741); the loop goes on,
\* and get_details returns after the last listing (742).
psl_finish(outcome) ==
    /\ outcomes' = Append(outcomes, outcome)
    /\ rows' = (IF outcome = "normalised"
                THEN Append(rows, batch[gd_i].external_id) ELSE rows)
    /\ gd_pc' = (IF gd_i = Len(batch) THEN "done" ELSE "loop")
    /\ gd_i' = (IF gd_i = Len(batch) THEN gd_i ELSE gd_i + 1)
    /\ psl_pc' = "fetch"
    /\ resp' = NoResp
    /\ UNCHANGED batch

\* resp = fetch(url); if resp is None: return None (153-155).
psl_fetch(ok, html) ==
    /\ gd_pc = "loop"
    /\ psl_pc = "fetch"
    /\ IF ok
       THEN /\ resp' = [ok |-> TRUE, html |-> html]
            /\ psl_pc' = "parse"
            /\ UNCHANGED <<gd_pc, batch, gd_i, rows, outcomes>>
       ELSE psl_finish("fetch_failed")
    /\ UNCHANGED storeVars

\* extract_agency_info(soup) (160): the agent triple of the page; it reads
\* the document only.  scraper.py calls it and does not define it (it defines
\* extract_agent_info, 744-784); no store write precedes the call.
extract_agency_info(html) == <<Absent, Absent, Absent>>

\* soup, image links, agent info, parse_property_page; if details is None:
\* return None (157-165).
psl_parse ==
    /\ gd_pc = "loop"
    /\ psl_pc = "parse"
    /\ extract_agency_info(resp.html) \in {<<Absent, Absent, Absent>>}
    /\ IF parse_property_page(batch[gd_i].url, resp.html).parsed
       THEN /\ psl_pc' = "persist"
            /\ UNCHANGED <<gd_pc, batch, gd_i, resp, rows, outcomes>>
       ELSE psl_finish("unparseable")
    /\ UNCHANGED storeVars

\* save_raw_listing's body (250-272): the upsert, its exception logged and
\* swallowed.
save_raw_listing(raw, external_id, html, ok) ==
    IF ok THEN [raw EXCEPT ![external_id] = RawRow(html)] ELSE raw

\* upsert_normalised_listing's body (290-325): the upsert; an exception of
\* the store propagates.
upsert_normalised_listing(norm, details, external_id, main_image_path) ==
    [norm EXCEPT ![external_id] = NormRowOf(details, main_image_path)]

\* Lines 167-199: attach the agent info, then save_raw_listing,
\* process_listing_images, upsert_normalised_listing, return asdict(details).
\* rawBinds and upsertBinds say whether the two calls bind to the callees'
\* signatures.
psl_persist_with(rawBinds, upsertBinds) ==
    /\ gd_pc = "loop"
    /\ psl_pc = "persist"
    /\ LET e == batch[gd_i].external_id
           n == get_image_links(resp.html)
       IN  IF ~rawBinds
           THEN \* TypeError at 173
                /\ psl_finish("raised")
                /\ UNCHANGED storeVars
           ELSE \E rawOk \in BOOLEAN, upsertOk \in BOOLEAN, out \in OutcomeVectors(n) :
                  LET st == process_listing_images(listing_images, e, n, out)
                  IN  /\ raw_listings' = save_raw_listing(raw_listings, e, resp.html, rawOk)
                      /\ listing_images' = st.imgs
                      /\ IF st.raised \/ ~upsertBinds \/ ~upsertOk
                         THEN /\ psl_finish("raised")
                              /\ UNCHANGED normalised_listings
                         ELSE /\ psl_finish("normalised")
                              /\ normalised_listings' =
                                   upsert_normalised_listing(
                                       normalised_listings,
                                       parse_property_page(batch[gd_i].url, resp.html),
                                       e, st.main)

\* The two call sites with keywords that match the signatures.
psl_persist_calls_bound == psl_persist_with(TRUE, TRUE)

psl_persist ==
    psl_persist_with(
        Binds(psl_save_raw_call, save_raw_listing_params, save_raw_listing_params),
        Binds(psl_upsert_call, upsert_normalised_listing_params,
              upsert_normalised_listing_required))

\* A new call of get_details once the previous one has returned.
get_details_call(listings_meta) ==
    /\ gd_pc = "done"
    /\ get_details_enter(listings_meta)
    /\ UNCHANGED storeVars

-----------------------------------------------------------------------------
(* The entry points.                                                       *)

main_max_pages == 536       \* scraper.py main(): max_pages
main_py_max_pages == 1      \* main.py main(): max_pages

Min(a, b) == IF a <= b THEN a ELSE b

\* load_existing_external_ids (114-135): the external_ids of
\* normalised_listings, or the empty set when the query raises.
load_existing_external_ids(norm, ok) ==
    IF ok THEN {e \in DOMAIN norm : norm[e].present} ELSE {}

\* scraper.py main(), 788-804: load the known IDs and call get_links.
scraper_main_start ==
    /\ entry = "scraper.py"
    /\ main_pc = "start"
    /\ \E ok \in BOOLEAN :
         get_links_enter(load_existing_external_ids(normalised_listings, ok),
                         Min(main_max_pages, MaxPages))
    /\ main_pc' = "links"
    /\ UNCHANGED <<entry, storeVars, gdVars, imgVars>>

\* 805-819: return when nothing is new, else call get_details.
scraper_main_after_links ==
    /\ entry = "scraper.py"
    /\ main_pc = "links"
    /\ gl_pc = "done"
    /\ IF new_listings = <<>>
       THEN /\ main_pc' = "done"
            /\ UNCHANGED gdVars
       ELSE /\ main_pc' = "details"
            /\ get_details_enter(new_listings)
    /\ UNCHANGED <<entry, linkVars, storeVars, imgVars>>

\* 820-821: get_details has returned.
scraper_main_end ==
    /\ entry = "scraper.py"
    /\ main_pc = "details"
    /\ gd_pc = "done"
    /\ main_pc' = "done"
    /\ UNCHANGED <<entry, linkVars, storeVars, gdVars, imgVars>>

\* main.py main() (4-20): get_links(base_url, max_pages=max_pages).
main_py_main ==
    /\ entry = "main.py"
    /\ main_pc = "start"
    /\ IF Binds(main_py_get_links_call, get_links_params, get_links_params)
       THEN /\ get_links_enter({}, main_py_max_pages)
            /\ main_pc' = "links"
       ELSE \* TypeError at main.py 15
            /\ main_pc' = "raised"
            /\ UNCHANGED linkVars
    /\ UNCHANGED <<entry, storeVars, gdVars, imgVars>>

-----------------------------------------------------------------------------
(* repair_missing_normalised.py: main (170-182) and repair_single_listing  *)
(* (76-120).  A run starts when no repair program is running.              *)

\* sorted(Listings)
ListingOrder == <<"a8037244", "pa4634098">>

\* get_missing_normalised_ids (58-70): sorted(raw_ids - norm_ids).
get_missing_normalised_ids(raw, norm) ==
    SelectSeq(ListingOrder, LAMBDA e : raw[e].present /\ ~norm[e].present)

\* The loop over rep_rows goes to its next element, or ends.
rep_advance ==
    /\ rep_pc' = (IF rep_i = Len(rep_rows) THEN "done" ELSE "loop")
    /\ rep_i' = (IF rep_i = Len(rep_rows) THEN rep_i ELSE rep_i + 1)
    /\ UNCHANGED <<rep_prog, rep_rows>>

\* main(), 170-176: the two selects (an exception of the store ends the
\* program), return when nothing is missing.
repair_main_start(storeOk) ==
    /\ rep_pc \in {"idle", "done", "raised"}
    /\ rep_prog' = "repair_missing_normalised.py"
    /\ LET missing_ids == get_missing_normalised_ids(raw_listings, normalised_listings)
       IN  IF storeOk
           THEN /\ rep_rows' = missing_ids
                /\ rep_pc' = (IF missing_ids = <<>> THEN "done" ELSE "loop")
           ELSE /\ rep_rows' = <<>>
                /\ rep_pc' = "raised"
    /\ rep_i' = 1
    /\ repaired' = 0
    /\ success_count' = 0
    /\ fail_count' = 0
    /\ parse_none_count' = 0
    /\ UNCHANGED storeVars

\* One iteration of `for ext_id in missing_ids` (178-180):
\* repair_single_listing(ext_id), repair_listing_images included.  storeOk
\* says whether the select at 80 and the upsert at 110-113 succeed, failAt
\* which insert of repair_listing_images raises (n when none does).  The
\* stored url goes to details.url only.
repair_single_listing(storeOk, failAt) ==
    /\ rep_prog = "repair_missing_normalised.py"
    /\ rep_pc = "loop"
    /\ LET external_id == rep_rows[rep_i]
           row     == raw_listings[external_id]
           details == parse_property_page(EmptyUrl, row.html)
           n       == get_image_links(row.html)
           norm    == [normalised_listings EXCEPT
                          ![external_id] = NormRowOf(details, Absent)]
           st      == rli_loop(PliStart(listing_images), external_id, n, 0, failAt)
       IN  IF ~storeOk
           THEN \* the exception leaves main()
                /\ rep_pc' = "raised"
                /\ UNCHANGED <<rep_prog, rep_rows, rep_i, repaired, storeVars>>
           ELSE IF ~row.present \/ ~details.parsed
           THEN \* return False (81-83, 95-97)
                /\ rep_advance
                /\ UNCHANGED <<repaired, storeVars>>
           ELSE /\ listing_images' = st.imgs
                /\ normalised_listings' =
                     IF ~st.raised /\ st.main # Absent
                     THEN [norm EXCEPT ![external_id].main_image_path = st.main]
                     ELSE norm
                /\ UNCHANGED raw_listings
                /\ IF st.raised
                   THEN /\ rep_pc' = "raised"
                        /\ UNCHANGED <<rep_prog, rep_rows, rep_i, repaired>>
                   ELSE /\ rep_advance
                        /\ repaired' = repaired + 1
    /\ UNCHANGED <<success_count, fail_count, parse_none_count>>

-----------------------------------------------------------------------------
(* repair_normalised_from_raw.py: rebuild_normalised_from_raw (108-188).   *)

BATCH_SIZE == 200

\* The while loop of fetch_all_raw_listings (50-83) from offset `start` on,
\* over the rows `stored` in external_id order; the query at offset failAt
\* raises (-1 when none does).
RECURSIVE fetch_batches(_, _, _, _)
fetch_batches(stored, all_rows, start, failAt) ==
    IF start = failAt
    THEN [raised |-> start = 0, rows |-> all_rows]
    ELSE LET resp_data == SubSeq(stored, start + 1, Min(start + BATCH_SIZE, Len(stored)))
         IN  IF Len(resp_data) < BATCH_SIZE
             THEN [raised |-> FALSE, rows |-> all_rows \o resp_data]
             ELSE fetch_batches(stored, all_rows \o resp_data, start + BATCH_SIZE, failAt)

\* fetch_all_raw_listings (42-88): the external_ids of the rows loaded.
fetch_all_raw_listings(raw, failAt) ==
    fetch_batches(SelectSeq(ListingOrder, LAMBDA e : raw[e].present), <<>>, 0, failAt)

\* wipe_normalised_listings (91-103): every row is of the source.
wipe_normalised_listings(norm) == [e \in DOMAIN norm |-> NoNorm]

\* upsert_normalised_listing(...) in rebuild_normalised_from_raw (167-173).
rebuild_upsert_call ==
    {"details", "external_id", "source", "listing_type", "main_image_path"}

\* 118: raw_rows = fetch_all_raw_listings(source=SOURCE).
rebuild_load(failAt) ==
    /\ rep_pc \in {"idle", "done", "raised"}
    /\ rep_prog' = "repair_normalised_from_raw.py"
    /\ LET res == fetch_all_raw_listings(raw_listings, failAt)
       IN  /\ rep_rows' = res.rows
           /\ rep_pc' = (IF res.raised THEN "raised" ELSE "wipe")
    /\ rep_i' = 1
    /\ repaired' = 0
    /\ success_count' = 0
    /\ fail_count' = 0
    /\ parse_none_count' = 0
    /\ UNCHANGED storeVars

\* 121-125: wipe_normalised_listings(source=SOURCE); an exception of the
\* delete ends the program.
rebuild_wipe(storeOk) ==
    /\ rep_prog = "repair_normalised_from_raw.py"
    /\ rep_pc = "wipe"
    /\ IF storeOk
       THEN /\ normalised_listings' = wipe_normalised_listings(normalised_listings)
            /\ rep_pc' = (IF rep_rows = <<>> THEN "done" ELSE "loop")
       ELSE /\ rep_pc' = "raised"
            /\ UNCHANGED normalised_listings
    /\ UNCHANGED <<rep_prog, rep_rows, rep_i, repaired,
                   success_count, fail_count, parse_none_count,
                   raw_listings, listing_images>>

\* One iteration of `for row in raw_rows` (127-182).  The rows of the model
\* carry an external_id, a url and an html, and the program writes no
\* raw_listings row, so the row loaded at 118 is the stored one.
rebuild_row(storeOk) ==
    /\ rep_prog = "repair_normalised_from_raw.py"
    /\ rep_pc = "loop"
    /\ LET external_id == rep_rows[rep_i]
           details == parse_property_page(EmptyUrl, raw_listings[external_id].html)
       IN  IF ~details.parsed
           THEN \* 156-164
                /\ parse_none_count' = parse_none_count + 1
                /\ UNCHANGED <<success_count, fail_count, normalised_listings>>
           ELSE IF ~Binds(rebuild_upsert_call, upsert_normalised_listing_params,
                          upsert_normalised_listing_required)
                   \/ ~storeOk
           THEN \* TypeError at 167, or an exception of the store: caught (175)
                /\ fail_count' = fail_count + 1
                /\ UNCHANGED <<success_count, parse_none_count, normalised_listings>>
           ELSE /\ normalised_listings' =
                     upsert_normalised_listing(normalised_listings, details,
                                               external_id, Absent)
                /\ success_count' = success_count + 1
                /\ UNCHANGED <<fail_count, parse_none_count>>
    /\ rep_advance
    /\ UNCHANGED <<repaired, raw_listings, listing_images>>

-----------------------------------------------------------------------------
(* Initial states.                                                         *)

LinksIdle ==
    /\ gl_pc = "idle"
    /\ page = 1
    /\ max_pages = 0
    /\ existing_ids = {}
    /\ new_listings = <<>>
    /\ fetches = 0
    /\ lastResult = "none"
    /\ cardIds = {}
    /\ page1Ids = {}

DetailsIdle ==
    /\ gd_pc = "idle"
    /\ batch = <<>>
    /\ gd_i = 1
    /\ psl_pc = "fetch"
    /\ resp = NoResp
    /\ rows = <<>>
    /\ outcomes = <<>>

ImagesIdle ==
    /\ img_run = NoRun
    /\ img_prev = [e \in Listings |-> NoRun.prev]

MainIdle ==
    /\ entry = "none"
    /\ main_pc = "idle"

CleanIdle ==
    /\ cl_fn = "none"
    /\ cl_pc = "done"
    /\ cl_in = <<>>
    /\ cl_out = <<>>

RepairIdle ==
    /\ rep_prog = "none"
    /\ rep_pc = "idle"
    /\ rep_rows = <<>>
    /\ rep_i = 1
    /\ success_count = 0
    /\ fail_count = 0
    /\ parse_none_count = 0
    /\ repaired = 0

\* The store as earlier runs left it: raw captures of any page, and a
\* normalised row only for listings that have a raw capture.
StoreAsLeft ==
    /\ raw_listings \in [Listings -> {NoRaw} \cup {RawRow(h) : h \in HtmlPages}]
    /\ normalised_listings \in [Listings -> {NoNorm, NormRow(Absent)}]
    /\ \A e \in Listings : normalised_listings[e].present => raw_listings[e].present
    /\ listing_images = [k \in ImageKeys |-> NoImage]

-----------------------------------------------------------------------------
(* Spec: the listing orchestrator.  get_details is called, any number of   *)
(* times, on any batch of descriptors.                                     *)

Init ==
    /\ StoreAsLeft
    /\ LinksIdle
    /\ ImagesIdle
    /\ MainIdle
    /\ CleanIdle
    /\ RepairIdle
    /\ \E b \in SeqsUpTo(BatchDescriptors, MaxBatch) :
         /\ batch = b
         /\ gd_pc = (IF b = <<>> THEN "done" ELSE "loop")
    /\ gd_i = 1
    /\ psl_pc = "fetch"
    /\ resp = NoResp
    /\ rows = <<>>
    /\ outcomes = <<>>

Next ==
    \/ \E ok \in BOOLEAN, html \in HtmlPages :
         psl_fetch(ok, html) /\ UNCHANGED <<linkVars, imgVars, mainVars, cleanVars, repairVars>>
    \/ psl_parse /\ UNCHANGED <<linkVars, imgVars, mainVars, cleanVars, repairVars>>
    \/ psl_persist /\ UNCHANGED <<linkVars, imgVars, mainVars, cleanVars, repairVars>>
    \/ \E b \in SeqsUpTo(BatchDescriptors, MaxBatch) :
         get_details_call(b) /\ UNCHANGED <<linkVars, imgVars, mainVars, cleanVars, repairVars>>

Spec == Init /\ [][Next]_vars

-----------------------------------------------------------------------------
(* SpecLinks: one get_links call with any known-IDs set and any max_pages  *)
(* up to the bound.                                                        *)

InitLinks ==
    /\ existing_ids \in SUBSET IDs
    /\ max_pages \in 1..MaxPages
    /\ gl_pc = "loop"
    /\ page = 1
    /\ new_listings = <<>>
    /\ fetches = 0
    /\ lastResult = "none"
    /\ cardIds = {}
    /\ page1Ids = {}
    /\ raw_listings = [e \in Listings |-> NoRaw]
    /\ normalised_listings = [e \in Listings |-> NoNorm]
    /\ listing_images = [k \in ImageKeys |-> NoImage]
    /\ DetailsIdle
    /\ ImagesIdle
    /\ MainIdle
    /\ CleanIdle
    /\ RepairIdle

NextLinks ==
    \E res \in PageResults :
        get_links_page(res) /\ UNCHANGED <<storeVars, gdVars, imgVars, mainVars, cleanVars, repairVars>>

SpecLinks == InitLinks /\ [][NextLinks]_vars

-----------------------------------------------------------------------------
(* SpecImages: the image pipeline and the image repair called on their     *)
(* own, any number of times, on one listing of the store.                  *)

ImageListing == "a8037244"

InitImages ==
    /\ raw_listings = [e \in Listings |-> NoRaw]
    /\ normalised_listings \in [Listings -> {NoNorm, NormRow(Absent)}]
    /\ listing_images = [k \in ImageKeys |-> NoImage]
    /\ LinksIdle
    /\ DetailsIdle
    /\ ImagesIdle
    /\ MainIdle
    /\ CleanIdle
    /\ RepairIdle

NextImages ==
    \/ \E n \in 0..MaxImages :
         \E out \in OutcomeVectors(n) :
            pli_call(ImageListing, n, out)
              /\ UNCHANGED <<linkVars, gdVars, mainVars, cleanVars, repairVars>>
    \/ \E n \in 0..MaxImages :
         \E failAt \in 0..n :
            repair_listing_images(ImageListing, n, failAt)
              /\ UNCHANGED <<linkVars, gdVars, imgVars, mainVars, cleanVars, repairVars>>

SpecImages == InitImages /\ [][NextImages]_vars

-----------------------------------------------------------------------------
(* SpecMain: one run of an entry point, scraper.py or main.py, over the    *)
(* store as earlier runs left it.                                          *)

InitMain ==
    /\ raw_listings \in [Listings -> {NoRaw, RawRow(Html(TRUE, TRUE, TRUE, 0))}]
    /\ normalised_listings \in [Listings -> {NoNorm, NormRow(Absent)}]
    /\ \A e \in Listings : normalised_listings[e].present => raw_listings[e].present
    /\ listing_images = [k \in ImageKeys |-> NoImage]
    /\ LinksIdle
    /\ DetailsIdle
    /\ ImagesIdle
    /\ entry \in {"scraper.py", "main.py"}
    /\ main_pc = "start"
    /\ CleanIdle
    /\ RepairIdle

NextMain ==
    \/ scraper_main_start /\ UNCHANGED <<cleanVars, repairVars>>
    \/ \E res \in PageResults :
         get_links_page(res) /\ UNCHANGED <<storeVars, gdVars, imgVars, mainVars, cleanVars, repairVars>>
    \/ scraper_main_after_links /\ UNCHANGED <<cleanVars, repairVars>>
    \/ \E ok \in BOOLEAN, html \in HtmlPages :
         psl_fetch(ok, html) /\ UNCHANGED <<linkVars, imgVars, mainVars, cleanVars, repairVars>>
    \/ psl_parse /\ UNCHANGED <<linkVars, imgVars, mainVars, cleanVars, repairVars>>
    \/ psl_persist /\ UNCHANGED <<linkVars, imgVars, mainVars, cleanVars, repairVars>>
    \/ scraper_main_end /\ UNCHANGED <<cleanVars, repairVars>>
    \/ main_py_main /\ UNCHANGED <<cleanVars, repairVars>>

SpecMain == InitMain /\ [][NextMain]_vars

-----------------------------------------------------------------------------
(* SpecRepair: the two repair programs, run any number of times in any     *)
(* order, over a store of raw captures and normalised rows.                *)

\* The captured pages: one whose anchor texts all clean to a value, one whose
\* price text has no digit, one whose area text has no "in", one whose title
\* tag is empty, and one without a title tag.
RepairPages ==
    { Html(TRUE, TRUE, TRUE, 1),
      HtmlText(<<"D", "H">>, AreaText, TitleText),
      HtmlText(PriceText, <<"Casablanca">>, TitleText),
      HtmlText(PriceText, AreaText, " "),
      Html(TRUE, TRUE, FALSE, 0) }

InitRepair ==
    /\ raw_listings \in [Listings -> {NoRaw} \cup {RawRow(h) : h \in RepairPages}]
    /\ normalised_listings \in [Listings -> {NoNorm, NormRow(Absent)}]
    /\ \A e \in Listings : normalised_listings[e].present => raw_listings[e].present
    /\ listing_images = [k \in ImageKeys |-> NoImage]
    /\ LinksIdle
    /\ DetailsIdle
    /\ ImagesIdle
    /\ MainIdle
    /\ CleanIdle
    /\ RepairIdle

NextRepair ==
    \/ \E storeOk \in BOOLEAN :
         repair_main_start(storeOk)
           /\ UNCHANGED <<linkVars, gdVars, imgVars, mainVars, cleanVars>>
    \/ \E storeOk \in BOOLEAN, failAt \in 0..MaxImages :
         repair_single_listing(storeOk, failAt)
           /\ UNCHANGED <<linkVars, gdVars, imgVars, mainVars, cleanVars>>
    \/ \E failAt \in {-1, 0} :
         rebuild_load(failAt)
           /\ UNCHANGED <<linkVars, gdVars, imgVars, mainVars, cleanVars>>
    \/ \E storeOk \in BOOLEAN :
         rebuild_wipe(storeOk)
           /\ UNCHANGED <<linkVars, gdVars, imgVars, mainVars, cleanVars>>
    \/ \E storeOk \in BOOLEAN :
         rebuild_row(storeOk)
           /\ UNCHANGED <<linkVars, gdVars, imgVars, mainVars, cleanVars>>

SpecRepair == InitRepair /\ [][NextRepair]_vars

-----------------------------------------------------------------------------
(* SpecClean: one call of a cleaner, of the identity resolver or of the    *)
(* coordinate extractor, on any argument up to the bounds.                 *)

CharKinds == {"0", "1", "5", ",", " ", "D"}
NumberTexts == SeqsUpTo(CharKinds, MaxText)

AgeWords == {"0", "5", "05", "years", "Years", "old"}
AgeTexts == SeqsUpTo(AgeWords, MaxText)

\* Absent: the page has no "Condition" label (label_value.get gives None).
ConditionTexts ==
    {Absent, "", "Good condition", "Due for reform", "New", "Renovated",
     "Good", "Old", "good condition"}

AreaWords == {"Maarif", "Casablanca", "in", "IN", "Ain"}
AreaTexts == SeqsUpTo(AreaWords, MaxText)

SegKinds == {"en", "a", "pa", "8037244", "8037244-flat", "x"}
UrlInputs ==
    {Url(abs, segs, query) :
        abs \in BOOLEAN, segs \in SeqsUpTo(SegKinds, MaxText),
        query \in {"", "?t=1", "?ref=/a/5550001"}}

\* The values of an ll parameter: one, two or three comma-separated parts.
LLValues ==
    {<<a>> : a \in {"33.57", "-7.63", "abc"}}
      \cup {<<a, b>> : a \in {"33.57", "-7.63", "abc"}, b \in {"33.57", "-7.63", "abc"}}
      \cup {<<"33.57", "-7.63", "abc">>}

ScriptKinds ==
    {Script(FALSE, <<>>), Script(TRUE, <<>>)} \cup {Script(TRUE, ll) : ll \in LLValues}

ScriptLists == SeqsUpTo(ScriptKinds, MaxScripts)

InitClean ==
    /\ raw_listings = [e \in Listings |-> NoRaw]
    /\ normalised_listings = [e \in Listings |-> NoNorm]
    /\ listing_images = [k \in ImageKeys |-> NoImage]
    /\ LinksIdle
    /\ DetailsIdle
    /\ ImagesIdle
    /\ MainIdle
    /\ RepairIdle
    /\ cl_pc = "ready"
    /\ cl_out = <<>>
    /\ \/ cl_fn = "clean_integer" /\ cl_in \in NumberTexts
       \/ cl_fn = "clean_age" /\ cl_in \in AgeTexts
       \/ cl_fn = "clean_condition" /\ cl_in \in ConditionTexts
       \/ cl_fn = "parse_area_and_city" /\ cl_in \in AreaTexts
       \/ cl_fn = "get_mubawab_external_id" /\ cl_in \in UrlInputs
       \/ cl_fn = "extract_coordinates" /\ cl_in \in ScriptLists

\* The call of the function cl_fn returns `ret`.
cl_return(fn, ret) ==
    /\ cl_fn = fn
    /\ cl_pc = "ready"
    /\ cl_out' = ret
    /\ cl_pc' = "done"
    /\ UNCHANGED <<cl_fn, cl_in>>

NextClean ==
    \/ cl_return("clean_integer", clean_integer(cl_in))
         /\ UNCHANGED <<linkVars, storeVars, gdVars, imgVars, mainVars, repairVars>>
    \/ cl_return("clean_age", clean_age(cl_in))
         /\ UNCHANGED <<linkVars, storeVars, gdVars, imgVars, mainVars, repairVars>>
    \/ cl_return("clean_condition", clean_condition(cl_in))
         /\ UNCHANGED <<linkVars, storeVars, gdVars, imgVars, mainVars, repairVars>>
    \/ cl_return("parse_area_and_city", parse_area_and_city(cl_in))
         /\ UNCHANGED <<linkVars, storeVars, gdVars, imgVars, mainVars, repairVars>>
    \/ cl_return("get_mubawab_external_id", get_mubawab_external_id(cl_in))
         /\ UNCHANGED <<linkVars, storeVars, gdVars, imgVars, mainVars, repairVars>>
    \/ cl_return("extract_coordinates", extract_coordinates(cl_in))
         /\ UNCHANGED <<linkVars, storeVars, gdVars, imgVars, mainVars, repairVars>>

SpecClean == InitClean /\ [][NextClean]_vars

-----------------------------------------------------------------------------
(* Properties.                                                             *)

C2_RawSavedBeforeParse ==
    /\ (gd_pc = "loop" /\ psl_pc \in {"parse", "persist"})
          => raw_listings[batch[gd_i].external_id].present
    /\ \A i \in DOMAIN outcomes :
          outcomes[i] # "fetch_failed" => raw_listings[batch[i].external_id].present

\* C3 (Spec): when get_details has gone through a batch in which the
\* processing of one listing raised, get_details has not raised, every
\* listing of the batch was processed, and every other listing whose page
\* was fetched and parsed produced its normalised record.
C3_OtherListingsNormalised ==
    gd_pc = "done" =>
        /\ Len(outcomes) = Len(batch)
        /\ \A i, j \in DOMAIN outcomes :
              (i # j /\ outcomes[i] = "raised")
                 => outcomes[j] \in {"normalised", "fetch_failed", "unparseable"}

\* C4 (SpecMain): once the configuration has loaded, a run of the entry point
\* never ends by raising, whatever fetch, parse or store failure occurs.
C4_RunEndsWithoutRaising == main_pc # "raised" /\ gd_pc # "raised"

\* C5 (SpecImages): a call of process_listing_images for a listing whose
\* every image index already has a row with a storage_path uploads nothing,
\* writes no row and, when it returns, returns the main_image_path that the
\* call before it returned for the same image list.
C5_RerunDoesNothing ==
    (img_run.ran /\ img_run.start_missing = {}) =>
        /\ img_run.uploads = {}
        /\ img_run.writes = {}
        /\ (~img_run.raised /\ img_run.prev.returned /\ img_run.prev.n = img_run.n)
              => img_run.ret = img_run.prev.ret

\* A second call over a fully indexed listing with two images returned the
\* stored path of image 0.
C5_Witness ==
    /\ img_run.ran
    /\ ~img_run.raised
    /\ img_run.n = 2
    /\ img_run.start_missing = {}
    /\ img_run.prev.returned
    /\ img_run.prev.n = 2
    /\ img_run.ret = StoragePath(img_run.external_id, 0)

\* C6 (SpecImages): a call of process_listing_images that runs to its end
\* downloads and uploads every index that had no row, or a row whose
\* storage_path is absent, when the call began.
C6_EveryGapUploaded ==
    (img_run.ran /\ ~img_run.raised) => img_run.start_missing \subseteq img_run.uploads

\* C7 (SpecLinks): a get_links call whose existing_ids holds the identity of
\* every card on the index pages returns no descriptor.
C7_KnownIdsYieldNothing ==
    (gl_pc = "done" /\ cardIds \subseteq existing_ids) => new_listings = <<>>

\* Two pages of cards, all of them known, and nothing returned.
C7_Witness ==
    /\ gl_pc = "done"
    /\ fetches = 2
    /\ lastResult = "cards"
    /\ Cardinality(cardIds) >= 2
    /\ cardIds \subseteq existing_ids
    /\ new_listings = <<>>

\* C8 (SpecLinks): when the known IDs are one last-seen identity and a card
\* of index page 1 has that identity, discovery stops at page 1: no further
\* index page is fetched.
C8_WatermarkStopsAtPage1 ==
    (Cardinality(existing_ids) = 1 /\ existing_ids \subseteq page1Ids) => fetches <= 1

\* C9 (SpecLinks): new_listings never holds two descriptors with the same
\* external_id.
C9_NoDuplicateIds ==
    \A i, j \in DOMAIN new_listings :
        i # j => new_listings[i].external_id # new_listings[j].external_id

\* C10 (SpecLinks): the fetch of an index page that fails or shows no card
\* ends get_links, which returns the descriptors collected before it; no
\* page is fetched after it.
C10_StopsAtFailedOrEmptyPage ==
    [][ /\ (fetches' # fetches /\ lastResult' \in {"fail", "empty"})
            => (gl_pc' = "done" /\ new_listings' = new_listings)
        /\ lastResult \in {"fail", "empty"} => fetches' = fetches ]_vars

\* The second index page failed after the first gave a descriptor.
C10_Witness ==
    /\ gl_pc = "done"
    /\ lastResult = "fail"
    /\ fetches = 2
    /\ max_pages > 2
    /\ Len(new_listings) >= 1

\* C11 (Spec): when process_single_listing reaches the parser with a page
\* that lacks the price block, the area/city block or the title block, the
\* call ends there with nothing to return: no row of normalised_listings is
\* written and no image is uploaded or indexed for the listing.
C11_AnchorlessPageWritesNothing ==
    [][ (/\ gd_pc = "loop"
         /\ psl_pc = "parse"
         /\ ~(resp.html.price_tag /\ resp.html.area_tag /\ resp.html.title_tag))
           => /\ outcomes' = Append(outcomes, "unparseable")
              /\ rows' = rows
              /\ normalised_listings' = normalised_listings
              /\ listing_images' = listing_images ]_vars

\* A batch of two listings whose pages both lacked an anchor block, and the
\* store holds no normalised row and no image row for either.
C11_Witness ==
    /\ gd_pc = "done"
    /\ Len(outcomes) = 2
    /\ \A i \in DOMAIN outcomes :
          /\ outcomes[i] = "unparseable"
          /\ ~normalised_listings[batch[i].external_id].present
    /\ \A k \in ImageKeys : ~listing_images[k].present
    /\ rows = <<>>

\* C12 (SpecRepair): every row of normalised_listings has a title, a price
\* and an area: no row is written for a listing whose title, price or area
\* is absent after cleaning.
C12_RowsHaveAnchorFields ==
    \A e \in Listings :
        normalised_listings[e].present =>
            /\ normalised_listings[e].title # Absent
            /\ normalised_listings[e].price # None
            /\ normalised_listings[e].area # None

\* C13 (SpecClean): clean_condition returns "Good" for "Good condition",
\* "Old" for "Due for reform", "New" for "New", and absent for every other
\* argument; it never returns its argument's raw value.
C13_ConditionInClosedSet ==
    (cl_fn = "clean_condition" /\ cl_pc = "done") =>
        cl_out = CASE cl_in = "Good condition" -> "Good"
                   [] cl_in = "Due for reform" -> "Old"
                   [] cl_in = "New"            -> "New"
                   [] OTHER                    -> Absent

C15_IntegerOfDigitsInOrder ==
    (cl_fn = "clean_integer" /\ cl_pc = "done") =>
        LET pos == {i \in DOMAIN cl_in : cl_in[i] \in {"0", "1", "5"}}
            n   == Cardinality(pos)
        IN  IF n = 0
            THEN cl_out = None
            ELSE /\ Len(cl_out) = 1
                 /\ cl_out[1] >= 0
                 /\ cl_out[1] < 10 ^ n
                 /\ \A i \in pos :
                       (cl_out[1] \div (10 ^ Cardinality({j \in pos : j > i}))) % 10
                          = DigitValue(cl_in[i])

\* "1,5" gave 15.
C15_Witness ==
    /\ cl_fn = "clean_integer"
    /\ cl_pc = "done"
    /\ cl_in = <<"1", ",", "5">>
    /\ cl_out = Some(15)

\* C16 (SpecClean): parse_area_and_city splits a text "<area> in <city>", the
\* separator in any letter case, into (area, city), and returns
\* (absent, the whole text) for a text that has no "in" between two words.
C16_AreaCitySplit ==
    (cl_fn = "parse_area_and_city" /\ cl_pc = "done" /\ cl_in # <<>>) =>
        LET seps == {k \in 2..(Len(cl_in) - 1) : cl_in[k] \in {"in", "IN"}}
        IN  IF seps = {}
            THEN cl_out = <<None, Some(cl_in)>>
            ELSE \E k \in seps :
                    cl_out = <<Some(SubSeq(cl_in, 1, k - 1)),
                               Some(SubSeq(cl_in, k + 1, Len(cl_in)))>>

\* "Maarif IN Casablanca" gave ("Maarif", "Casablanca").
C16_Witness ==
    /\ cl_fn = "parse_area_and_city"
    /\ cl_pc = "done"
    /\ cl_in = <<"Maarif", "IN", "Casablanca">>
    /\ cl_out = <<Some(<<"Maarif">>), Some(<<"Casablanca">>)>>

C18_BothCoordinatesOrNeither ==
    (cl_fn = "extract_coordinates" /\ cl_pc = "done") =>
        LET matched == {i \in DOMAIN cl_in : cl_in[i].link /\ cl_in[i].ll # <<>>}
        IN  /\ (cl_out[1] = None) <=> (cl_out[2] = None)
            /\ IF matched = {}
               THEN cl_out = <<None, None>>
               ELSE LET i  == CHOOSE m \in matched : \A j \in matched : m <= j
                        ll == cl_in[i].ll
                    IN  IF Len(ll) = 2 /\ IsFloat(ll[1]) /\ IsFloat(ll[2])
                        THEN cl_out = <<Some(float(ll[1])), Some(float(ll[2]))>>
                        ELSE cl_out = <<None, None>>

\* C19 (SpecRepair): when rebuild_normalised_from_raw has completed,
\* normalised_listings has a row for every raw_listings row whose stored
\* HTML parses.
C19_RebuildKeepsParseableListings ==
    (rep_prog = "repair_normalised_from_raw.py" /\ rep_pc = "done") =>
        \A e \in Listings :
            (/\ raw_listings[e].present
             /\ parse_property_page(EmptyUrl, raw_listings[e].html).parsed)
               => normalised_listings[e].present

\* C20 (SpecMain): in a run of scraper.py main() over the store an earlier
\* run left, every listing that has a raw capture is in the known-IDs set
\* given to get_links, and is in no descriptor that get_links returns for
\* processing.
C20_CapturedListingsNotReprocessed ==
    (entry = "scraper.py" /\ main_pc \in {"links", "details", "done"}) =>
        \A e \in Listings :
            raw_listings[e].present =>
                /\ e \in existing_ids
                /\ \A i \in DOMAIN new_listings : new_listings[i].external_id # e

====
